---- MODULE Spec2Model ----
(***************************************************************************)
(* hearsound-analytics: order enrichment, result cache and paginated       *)
(* collection on the server (src/unnamed/part_000, the server with the     *)
(* cache; src/server/index.js is the same server without it), and the      *)
(* analytics aggregation of the client (src/client/src/App.js).            *)
(*                                                                         *)
(* Time is counted in seconds; a JavaScript Date is the number of seconds  *)
(* since the epoch, and the last millisecond of a day (23:59:59.999) is    *)
(* the last second of that day.  Money is counted in cents.                *)
(***************************************************************************)
EXTENDS Integers, Sequences, FiniteSets, TLC

VARIABLES
    rawOrder,      \* enrichment: the raw order handed to the orders.map callback
    enriched,      \* enrichment: the callback's result for rawOrder, or NULL
    tz,            \* client: the UTC offset of the browser's time zone, in seconds
    startDate,     \* client: useState startDate, an instant
    endDate,       \* client: useState endDate, an instant
    orders,        \* client: useState orders, the last response's array
    analytics,     \* client: useState analytics
    calcPending,   \* client: the calculateAnalytics effect is scheduled
    response,      \* aggregation: the array the server answers with
    fetchPending,  \* client: the fetchOrders effect is scheduled
    now,           \* seconds since the server started; the instant is T0 + now
    ticks,         \* the number of clock steps taken
    cache,         \* server: the Map cache, cacheKey -> {data, timestamp}
    nextSweep,     \* server: when the setInterval callback is due next
    reqs,          \* the calls of GET /api/orders under way, from the client's fetch to its setOrders
    upstream       \* the shop behind shopify.order.list: its orders, and whether its page chain never ends

varsEnrich == <<rawOrder, enriched>>

varsClient == <<tz, startDate, endDate, orders, analytics, calcPending>>

varsServer == <<now, ticks, cache, nextSweep, reqs, upstream>>

vars == <<rawOrder, enriched, tz, startDate, endDate, orders, analytics, calcPending, response,
          fetchPending, now, ticks, cache, nextSweep, reqs, upstream>>

---------------------------------------------------------------------------
(* JavaScript values *)

NULL == [kind |-> "null"]

Str(s) == [kind |-> "string", v |-> s]

Arr(items) == [kind |-> "array", items |-> items]

Num(n) == [kind |-> "number", nan |-> FALSE, v |-> n]

NaN == [kind |-> "number", nan |-> TRUE, v |-> 0]

\* a date string with a UTC offset, such as 2024-01-01T10:00:00-05:00
DateStr(local, off) == [kind |-> "string", valid |-> TRUE, local |-> local, off |-> off]

\* a non-empty string that is no date
BadDateStr == [kind |-> "string", valid |-> FALSE, local |-> 0, off |-> 0]

Truthy(x) == x.kind # "null"

Hour == 60 * 60

Day == 24 * Hour

\* new Date(s) for a string s: the instant, or NaN (Invalid Date)
ParseDate(s) == IF s.kind = "string" /\ s.valid THEN Num(s.local - s.off) ELSE NaN

\* Math.round(n / d) for d > 0: the nearest integer, a tie going up
MathRound(n, d) == (2 * n + d) \div (2 * d)

\* an amount as the upstream sends it: a decimal string, here its cents
AmountStr(c) == [kind |-> "string", numeric |-> TRUE, cents |-> c]

\* a string that is no number
BadAmount == [kind |-> "string", numeric |-> FALSE, cents |-> 0]

\* parseFloat(a): NaN for undefined, null and a string that is no number
ParseFloat(a) == IF a.kind = "string" /\ a.numeric THEN Num(a.cents) ELSE NaN

\* x || 0 for a number x: NaN and 0 are falsy
OrZero(x) == IF x.nan THEN 0 ELSE x.v

---------------------------------------------------------------------------
(* Enrichment: the callback of orders.map in the GET /api/orders handler *)

\* a slip: the last fulfillment instead of the first
FirstFulfillment_Last(order) ==
    IF ~Truthy(order.fulfillments) THEN NULL
    ELSE IF Len(order.fulfillments.items) = 0 THEN NULL
    ELSE order.fulfillments.items[Len(order.fulfillments.items)]

\* const fulfillment = order.fulfillments && order.fulfillments[0]
FirstFulfillment(order) ==
    IF ~Truthy(order.fulfillments) THEN NULL
    ELSE IF Len(order.fulfillments.items) = 0 THEN NULL
    ELSE order.fulfillments.items[1]

RECURSIVE SumTransactions(_)
\* refund.transactions.reduce((sum, t) => sum + (parseFloat(t.amount) || 0), 0)
SumTransactions(ts) ==
    IF ts = <<>> THEN 0
    ELSE SumTransactions(SubSeq(ts, 1, Len(ts) - 1)) + OrZero(ParseFloat(ts[Len(ts)].amount))

\* the reduce callback over order.refunds: total + the refund's transactions
RefundTotal(total, refund) ==
    IF Truthy(refund.transactions) /\ Len(refund.transactions.items) > 0
    THEN total + SumTransactions(refund.transactions.items)
    ELSE total

RECURSIVE ReduceRefunds(_)
ReduceRefunds(rs) ==
    IF rs = <<>> THEN 0
    ELSE RefundTotal(ReduceRefunds(SubSeq(rs, 1, Len(rs) - 1)), rs[Len(rs)])

HasRefunds(order) == Truthy(order.refunds) /\ Len(order.refunds.items) > 0

\* a slip: only the first refund's transactions are summed
RefundAmount_FirstOnly(order) ==
    IF HasRefunds(order) THEN RefundTotal(0, order.refunds.items[1]) ELSE 0

RefundAmount(order) ==
    IF HasRefunds(order) THEN ReduceRefunds(order.refunds.items) ELSE 0

DeliveryDate(fulfillment) ==
    IF ~Truthy(fulfillment) THEN NULL
    ELSE IF fulfillment.shipment_status = Str("delivered") THEN fulfillment.updated_at
    ELSE IF fulfillment.status = Str("success") THEN fulfillment.created_at
    ELSE NULL

RefundDate(order) ==
    IF HasRefunds(order) THEN order.refunds.items[1].created_at ELSE NULL

\* a slip: days >= 0 instead of days > 0
DaysToRefund_GeqZero(deliveryDate, refundDate) ==
    IF ~(Truthy(deliveryDate) /\ Truthy(refundDate)) THEN NULL
    ELSE LET deliveryTime == ParseDate(deliveryDate)
             refundTime == ParseDate(refundDate)
             days == IF deliveryTime.nan \/ refundTime.nan THEN NaN
                     ELSE Num(MathRound(refundTime.v - deliveryTime.v, Day))
         IN IF ~days.nan /\ days.v >= 0 THEN Num(days.v) ELSE Str("before_delivery")

\* days > 0 ? days : 'before_delivery', with days = Math.round((refundTime - deliveryTime) / one day);
\* the difference of an Invalid Date is NaN and NaN > 0 is false
DaysToRefund(deliveryDate, refundDate) ==
    IF ~(Truthy(deliveryDate) /\ Truthy(refundDate)) THEN NULL
    ELSE LET deliveryTime == ParseDate(deliveryDate)
             refundTime == ParseDate(refundDate)
             days == IF deliveryTime.nan \/ refundTime.nan THEN NaN
                     ELSE Num(MathRound(refundTime.v - deliveryTime.v, Day))
         IN IF ~days.nan /\ days.v > 0 THEN Num(days.v) ELSE Str("before_delivery")

\* a slip: a partial refund classified as a full one
RefundStatus_PartialAsFull(financial_status) ==
    IF financial_status \in {Str("refunded"), Str("partially_refunded")} THEN "Refunded"
    ELSE "Not Refunded"

RefundStatus(financial_status) ==
    IF financial_status = Str("refunded") THEN "Refunded"
    ELSE IF financial_status = Str("partially_refunded") THEN "Partially Refunded"
    ELSE "Not Refunded"

\* fulfillment ? fulfillment.shipment_status || fulfillment.status || 'unknown' : null
TransitStatus(fulfillment) ==
    IF ~Truthy(fulfillment) THEN NULL
    ELSE IF Truthy(fulfillment.shipment_status) THEN fulfillment.shipment_status
    ELSE IF Truthy(fulfillment.status) THEN fulfillment.status
    ELSE Str("unknown")

enrich(order) ==
    LET fulfillment == FirstFulfillment(order)
        deliveryDate == DeliveryDate(fulfillment)
        refundDate == RefundDate(order)
    IN [id |-> order.id,
        orderDate |-> order.created_at,
        shippingName |-> IF Truthy(order.shipping_address) THEN order.shipping_address.name ELSE Str("N/A"),
        fulfillmentDate |-> IF Truthy(fulfillment) THEN fulfillment.created_at ELSE NULL,
        financial_status |-> order.financial_status,
        refundStatus |-> RefundStatus(order.financial_status),
        deliveryDate |-> deliveryDate,
        transitStatus |-> TransitStatus(fulfillment),
        refundDate |-> refundDate,
        daysToRefund |-> DaysToRefund(deliveryDate, refundDate),
        hasRefunds |-> HasRefunds(order),
        refundAmount |-> RefundAmount(order)]

\* a refund entry on which the reduce callback throws a TypeError: the entry is null
\* (read of refund.transactions), or one of its transactions is (read of t.amount)
RefundThrows(refund) ==
    \/ ~Truthy(refund)
    \/ /\ Truthy(refund.transactions)
       /\ \E k \in 1..Len(refund.transactions.items) : ~Truthy(refund.transactions.items[k])

\* the callback throws on this order
EnrichThrows(order) ==
    /\ HasRefunds(order)
    /\ \E k \in 1..Len(order.refunds.items) : RefundThrows(order.refunds.items[k])

\* error.message of the TypeError: the first refund entry that throws decides
TypeErrorMessage(order) ==
    LET rs == order.refunds.items
        k == CHOOSE k \in 1..Len(rs) : RefundThrows(rs[k]) /\ \A j \in 1..(k - 1) : ~RefundThrows(rs[j])
    IN IF ~Truthy(rs[k]) THEN "Cannot read properties of null (reading 'transactions')"
       ELSE "Cannot read properties of null (reading 'amount')"

---------------------------------------------------------------------------
(* The raw orders the enrichment is applied to *)

MaxFulfillments == 2

MaxRefunds == 2

\* UTC offsets of the date strings: UTC and UTC-05:00
EST == 0 - 5 * Hour

\* the date string of the instant t seconds after the epoch, written at offset off
At(t, off) == DateStr(t + off, off)

Fulfillment(shipment_status, status, created_at, updated_at) ==
    [kind |-> "object", shipment_status |-> shipment_status, status |-> status,
     created_at |-> created_at, updated_at |-> updated_at]

FulfillmentSamples ==
    { Fulfillment(Str("delivered"), Str("success"), At(2 * Day, 0), At(5 * Day, 0)),
      Fulfillment(Str("in_transit"), Str("success"), At(2 * Day, 0), At(5 * Day, 0)),
      Fulfillment(NULL, Str("pending"), At(2 * Day, 0), At(5 * Day, 0)),
      Fulfillment(Str("delivered"), Str("success"), At(1 * Day, EST), At(3 * Day, EST)),
      Fulfillment(Str("delivered"), Str("success"), At(2 * Day, 0), NULL) }

Transaction(amount) == [kind |-> "object", amount |-> amount]

Refund(created_at, transactions) ==
    [kind |-> "object", created_at |-> created_at, transactions |-> transactions]

RefundSamples ==
    { Refund(At(5 * Day, EST), Arr(<<Transaction(AmountStr(1999))>>)),
      Refund(At(5 * Day + 12 * Hour, 0), Arr(<<>>)),
      Refund(At(5 * Day + 12 * Hour - 1, 0), NULL),
      Refund(At(8 * Day, 0), Arr(<<Transaction(AmountStr(500)), Transaction(BadAmount)>>)),
      Refund(At(1 * Day, 0), Arr(<<Transaction(AmountStr(1000)), Transaction(NULL)>>)),
      Refund(BadDateStr, Arr(<<Transaction(AmountStr(1999)), Transaction(AmountStr(500))>>)),
      Refund(NULL, Arr(<<Transaction(AmountStr(250))>>)) }

FinancialStatuses == {Str("refunded"), Str("partially_refunded"), Str("paid")}

\* the sequences over S of length at most n
SeqUpTo(S, n) == UNION {[1..k -> S] : k \in 0..n}

\* an array, or the field missing
ArrOrNull(S, n) == {NULL} \cup {Arr(items) : items \in SeqUpTo(S, n)}

Address(name) == [kind |-> "object", name |-> Str(name)]

RawOrder(id, created_at, financial_status, fulfillments, refunds) ==
    [id |-> id, created_at |-> created_at, financial_status |-> financial_status,
     shipping_address |-> Address("A. Customer"),
     fulfillments |-> fulfillments, refunds |-> refunds]

RawOrders ==
    { RawOrder(1, At(0, 0), fs, fulfillments, refunds) :
        fs \in FinancialStatuses,
        fulfillments \in ArrOrNull(FulfillmentSamples, MaxFulfillments),
        refunds \in ArrOrNull(RefundSamples, MaxRefunds) }

---------------------------------------------------------------------------
(* Enrichment: the claims *)

\* the instant a valid date string denotes
Instant(s) == s.local - s.off

BothDates(e) == Truthy(e.deliveryDate) /\ Truthy(e.refundDate)

BothValid(e) == BothDates(e) /\ e.deliveryDate.valid /\ e.refundDate.valid

\* refund instant minus delivery instant, in seconds
RefundLag(e) == Instant(e.refundDate) - Instant(e.deliveryDate)

\* n is the integer nearest to lag / Day, a tie going to the larger one
NearestDay(lag, n) == (2 * n - 1) * Day <= 2 * lag /\ 2 * lag < (2 * n + 1) * Day

\* C4: daysToRefund is null unless both dates are present; with both present it is
\* the rounded number of days from delivery to refund when that is positive and the
\* sentinel 'before_delivery' otherwise: never a number <= 0, a number only when the
\* refund is not before the delivery, the sentinel for a refund at the delivery
\* instant, and 3 for a refund exactly three days after delivery.
C4_DaysToRefund ==
    enriched # NULL =>
        LET e == enriched
            d == e.daysToRefund
        IN /\ ~BothDates(e) => d = NULL
           /\ BothDates(e) => d.kind \in {"number", "string"}
           /\ d.kind = "string" => d = Str("before_delivery")
           /\ d.kind = "number" =>
                /\ ~d.nan /\ d.v > 0
                /\ BothValid(e) /\ RefundLag(e) >= 0
                /\ NearestDay(RefundLag(e), d.v)
           /\ BothValid(e) /\ d.kind = "string" => \E n \in -400..0 : NearestDay(RefundLag(e), n)
           /\ BothValid(e) /\ RefundLag(e) = 0 => d = Str("before_delivery")
           /\ BothValid(e) /\ RefundLag(e) = 3 * Day => d = Num(3)

\* a refund at the delivery instant, the two dates written at different offsets
C4_Witness ==
    /\ enriched # NULL
    /\ BothValid(enriched)
    /\ enriched.deliveryDate # enriched.refundDate
    /\ RefundLag(enriched) = 0
    /\ enriched.daysToRefund = Str("before_delivery")

\* C5: deliveryDate is decided by the first fulfillment alone: its updated_at if its
\* shipment_status is 'delivered', else its created_at if its status is 'success', else
\* null; an order without fulfillments has deliveryDate null and transitStatus null.
C5_DeliveryDate ==
    enriched # NULL =>
        LET fs == rawOrder.fulfillments
        IN IF fs = NULL \/ fs = Arr(<<>>)
           THEN enriched.deliveryDate = NULL /\ enriched.transitStatus = NULL
           ELSE LET f == fs.items[1]
                IN enriched.deliveryDate =
                     IF f.shipment_status = Str("delivered") THEN f.updated_at
                     ELSE IF f.status = Str("success") THEN f.created_at
                     ELSE NULL

\* two fulfillments, the second one delivered at another date than the first
C5_Witness ==
    /\ enriched # NULL
    /\ rawOrder.fulfillments # NULL
    /\ Len(rawOrder.fulfillments.items) = 2
    /\ rawOrder.fulfillments.items[1].shipment_status = Str("delivered")
    /\ rawOrder.fulfillments.items[2].shipment_status = Str("delivered")
    /\ rawOrder.fulfillments.items[2].updated_at # rawOrder.fulfillments.items[1].updated_at
    /\ enriched.deliveryDate = rawOrder.fulfillments.items[1].updated_at

\* the cents of the numeric amounts of a refund's transactions, its first k
RECURSIVE C6_TxCents(_, _)
C6_TxCents(refund, k) ==
    IF refund.transactions = NULL \/ k = 0 THEN 0
    ELSE LET a == refund.transactions.items[k].amount
         IN (IF a # NULL /\ a.numeric THEN a.cents ELSE 0) + C6_TxCents(refund, k - 1)

RECURSIVE C6_AllCents(_, _)
C6_AllCents(refunds, k) ==
    IF k = 0 THEN 0
    ELSE C6_AllCents(refunds, k - 1)
         + (IF refunds[k].transactions = NULL THEN 0
            ELSE C6_TxCents(refunds[k], Len(refunds[k].transactions.items)))

\* C6: refundDate is the created_at of the first refund however many there are,
\* refundAmount is the sum over the transactions of all refunds; without refunds
\* refundDate is null, refundAmount 0 and daysToRefund null.
C6_RefundDateAndAmount ==
    enriched # NULL =>
        LET rs == rawOrder.refunds
        IN IF rs = NULL \/ rs = Arr(<<>>)
           THEN /\ enriched.refundDate = NULL
                /\ enriched.refundAmount = 0
                /\ enriched.daysToRefund = NULL
           ELSE /\ enriched.refundDate = rs.items[1].created_at
                /\ enriched.refundAmount = C6_AllCents(rs.items, Len(rs.items))

\* two refunds of different dates, each with money in it
C6_Witness ==
    /\ enriched # NULL
    /\ rawOrder.refunds # NULL
    /\ Len(rawOrder.refunds.items) = 2
    /\ rawOrder.refunds.items[1].created_at # rawOrder.refunds.items[2].created_at
    /\ C6_AllCents(rawOrder.refunds.items, 1) > 0
    /\ enriched.refundAmount > C6_AllCents(rawOrder.refunds.items, 1)
    /\ enriched.refundDate = rawOrder.refunds.items[1].created_at

\* C7: the refund classification is a function of financial_status alone:
\* 'refunded' gives Refunded, 'partially_refunded' gives Partially Refunded, anything
\* else Not Refunded, whatever the refunds and the refund amount are.
C7_RefundStatus ==
    enriched # NULL =>
        /\ rawOrder.financial_status = Str("refunded") => enriched.refundStatus = "Refunded"
        /\ rawOrder.financial_status = Str("partially_refunded")
              => enriched.refundStatus = "Partially Refunded"
        /\ rawOrder.financial_status \notin {Str("refunded"), Str("partially_refunded")}
              => enriched.refundStatus = "Not Refunded"

\* an order that is not 'refunded' although money was refunded on it
C7_Witness ==
    /\ enriched # NULL
    /\ rawOrder.financial_status = Str("paid")
    /\ enriched.refundAmount > 0
    /\ enriched.refundStatus = "Not Refunded"

---------------------------------------------------------------------------
(* The client: App.js, its second (later) App component *)

\* the instant the page is used at: 2024-03-10T12:00:00Z, the epoch being 2024-01-01T00:00:00Z
T0 == 69 * Day + 12 * Hour

\* date-fns startOfDay / endOfDay in the browser's time zone
startOfDay(t, zone) == t - ((t + zone) % Day)

endOfDay(t, zone) == startOfDay(t, zone) + Day - 1

\* date-fns subDays
subDays(t, n) == t - n * Day

\* predefinedRanges: label -> getValue() called at the instant at, as <<start, end>>
predefinedRanges(at, zone) ==
    [label \in {"Today", "Yesterday", "Last 7 days", "Last 30 days", "Last 90 days", "Last 365 days"} |->
        CASE label = "Today" -> <<startOfDay(at, zone), startOfDay(at, zone) + Day - 1>>
          [] label = "Yesterday" -> <<startOfDay(at, zone) - Day, startOfDay(at, zone) - 1>>
          [] label = "Last 7 days" -> <<startOfDay(at - 6 * Day, zone), endOfDay(at, zone)>>
          [] label = "Last 30 days" -> <<subDays(at, 29), at>>
          [] label = "Last 90 days" -> <<subDays(at, 89), at>>
          [] label = "Last 365 days" -> <<subDays(at, 364), at>>]

\* date >= startOfDay(startDate) && date <= endOfDay(endDate), false for an Invalid Date
InRange(date, start, end, zone) ==
    /\ ~date.nan
    /\ date.v >= startOfDay(start, zone)
    /\ date.v <= endOfDay(end, zone)

\* a slip: no filter by order date (every fetched order counts)
ordersInRange_All(os, start, end, zone) == os

ordersInRange(os, start, end, zone) ==
    SelectSeq(os, LAMBDA order : InRange(ParseDate(order.orderDate), start, end, zone))

\* a slip: the refunds are filtered by order date instead of refund date
refundsInRange_ByOrderDate(os, start, end, zone) ==
    SelectSeq(os, LAMBDA order :
        /\ ~(~Truthy(order.refundDate) \/ order.refundStatus # "Refunded")
        /\ InRange(ParseDate(order.orderDate), start, end, zone))

refundsInRange(os, start, end, zone) ==
    SelectSeq(os, LAMBDA order :
        /\ ~(~Truthy(order.refundDate) \/ order.refundStatus # "Refunded")
        /\ InRange(ParseDate(order.refundDate), start, end, zone))

\* a slip: the sentinel and null are not filtered out and count as 0 days
validDaysToRefund_Unfiltered(refunds) ==
    [i \in 1..Len(refunds) |->
        IF refunds[i].daysToRefund.kind = "number" THEN refunds[i].daysToRefund.v ELSE 0]

\* .filter(order => typeof order.daysToRefund === 'number').map(order => order.daysToRefund)
validDaysToRefund(refunds) ==
    LET kept == SelectSeq(refunds, LAMBDA order : order.daysToRefund.kind = "number")
    IN [i \in 1..Len(kept) |-> kept[i].daysToRefund.v]

RECURSIVE SumSeq(_)
\* .reduce((acc, curr) => acc + curr, 0)
SumSeq(ns) == IF ns = <<>> THEN 0 ELSE SumSeq(SubSeq(ns, 1, Len(ns) - 1)) + ns[Len(ns)]

\* Math.round(avgDays * 10) / 10, as a number of tenths
avgDaysTenths(days) ==
    IF Len(days) > 0 THEN MathRound(10 * SumSeq(days), Len(days)) ELSE 0

RECURSIVE SumRefundAmount(_)
SumRefundAmount(os) ==
    IF os = <<>> THEN 0 ELSE SumRefundAmount(SubSeq(os, 1, Len(os) - 1)) + os[Len(os)].refundAmount

\* a slip: a snapshot of six fields, with the refund rate (in percent, rounded) and
\* the refunded money (in cents) next to the three counts
calculateAnalytics_SixFields(os, start, end, zone) ==
    LET refunds == refundsInRange(os, start, end, zone)
        totalOrders == Len(ordersInRange(os, start, end, zone))
    IN [totalOrders |-> totalOrders,
        totalRefunds |-> Len(refunds),
        avgDaysToRefund |-> avgDaysTenths(validDaysToRefund(refunds)),
        totalRefundAmount |-> SumRefundAmount(refunds),
        refundRate |-> IF totalOrders > 0 THEN MathRound(100 * Len(refunds), totalOrders) ELSE 0,
        avgRefundAmount |-> IF Len(refunds) > 0 THEN MathRound(SumRefundAmount(refunds), Len(refunds)) ELSE 0]

\* the object calculateAnalytics hands to setAnalytics; avgDaysToRefund is in tenths
calculateAnalytics(os, start, end, zone) ==
    [totalOrders |-> Len(ordersInRange(os, start, end, zone)),
     totalRefunds |-> Len(refundsInRange(os, start, end, zone)),
     avgDaysToRefund |-> avgDaysTenths(validDaysToRefund(refundsInRange(os, start, end, zone)))]

\* useState's initial analytics
InitialAnalytics == [totalOrders |-> 0, totalRefunds |-> 0, avgDaysToRefund |-> 0]

---------------------------------------------------------------------------
(* The responses the aggregation is applied to *)

MaxOrders == 3

\* offsets of the browser: UTC and UTC-05:00
TimeZones == {0, EST}

Delivered(created_at, updated_at) ==
    Arr(<<Fulfillment(Str("delivered"), Str("success"), created_at, updated_at)>>)

RefundedAt(created_at) == Arr(<<Refund(created_at, Arr(<<Transaction(AmountStr(1999))>>))>>)

\* raw orders around T0; the response holds their enrichments
AggRawSamples ==
    { \* refunded one day after delivery
      RawOrder(1, At(T0 - 3 * Day, 0), Str("refunded"),
               Delivered(At(T0 - 3 * Day, 0), At(T0 - 2 * Day, 0)), RefundedAt(At(T0 - 1 * Day, 0))),
      \* refunded two days after delivery
      RawOrder(2, At(T0 - 5 * Day, EST), Str("refunded"),
               Delivered(At(T0 - 4 * Day, 0), At(T0 - 3 * Day, 0)), RefundedAt(At(T0 - 1 * Day + Hour, EST))),
      \* a partial refund inside the window
      RawOrder(3, At(T0 - 3 * Day, 0), Str("partially_refunded"),
               Delivered(At(T0 - 3 * Day, 0), At(T0 - 2 * Day, 0)), RefundedAt(At(T0 - 1 * Day, 0))),
      \* refunded before delivery
      RawOrder(4, At(T0 - 3 * Day, 0), Str("refunded"),
               Delivered(At(T0 - 3 * Day, 0), At(T0 - 1 * Day, 0)), RefundedAt(At(T0 - 2 * Day, 0))),
      \* ordered long before the window, refunded inside it
      RawOrder(5, At(T0 - 400 * Day, 0), Str("refunded"),
               Delivered(At(T0 - 399 * Day, 0), At(T0 - 5 * Day, 0)), RefundedAt(At(T0 - 1 * Day, 0))),
      \* ordered in the last second before midnight UTC, refunded at midnight UTC
      RawOrder(6, At(T0 - 12 * Hour - 3 * Day - 1, 0), Str("refunded"),
               Delivered(At(T0 - 3 * Day, 0), At(T0 - 12 * Hour - 3 * Day, 0)), RefundedAt(At(T0 - 12 * Hour, 0))),
      \* 'refunded' without a refund entry
      RawOrder(7, At(T0 - 1 * Day, 0), Str("refunded"), NULL, Arr(<<>>)) }

AggOrders == {enrich(o) : o \in AggRawSamples}

AggResponses == {Arr(os) : os \in SeqUpTo(AggOrders, MaxOrders)}

---------------------------------------------------------------------------
(* The client's handlers *)

\* onClick of a range button: setStartDate, setEndDate; both effects are scheduled
SelectRangeAt(at, label) ==
    /\ startDate' = predefinedRanges(at, tz)[label][1]
    /\ endDate' = predefinedRanges(at, tz)[label][2]
    /\ calcPending' = TRUE

\* setOrders(response.data)
SetOrders(data) ==
    /\ orders' = data
    /\ calcPending' = TRUE

\* useEffect(() => calculateAnalytics(), [orders, startDate, endDate])
CalculateAnalytics ==
    /\ calcPending
    /\ analytics' = calculateAnalytics(orders.items, startDate, endDate, tz)
    /\ calcPending' = FALSE
    /\ UNCHANGED <<tz, startDate, endDate, orders>>

\* the App component at its first render
InitClient(at, zones) ==
    /\ tz \in zones
    /\ startDate = subDays(at, 30)
    /\ endDate = at
    /\ orders = Arr(<<>>)
    /\ analytics = InitialAnalytics
    /\ calcPending = TRUE

---------------------------------------------------------------------------
(* The client's fetchOrders *)

\* the first day of each calendar year, in days since 2024-01-01; 2024 is a leap year
YearStart(y) ==
    CASE y = 2022 -> 0 - 730
      [] y = 2023 -> 0 - 365
      [] y = 2024 -> 0
      [] y = 2025 -> 366
      [] y = 2026 -> 731

IsLeap(y) == y = 2024

YearOfDay(d) == CHOOSE y \in 2022..2025 : YearStart(y) <= d /\ d < YearStart(y + 1)

\* the number of days of the year before March 1st, in a year that is no leap year
FebEnd == 59

\* start.setFullYear(start.getFullYear() - 1) on a local time: the same month, day and
\* time of day one year earlier, February 29th becoming March 1st
setFullYearMinus1(local) ==
    LET d == local \div Day
        y == YearOfDay(d)
        doy == d - YearStart(y)
        doy1 == IF IsLeap(y) /\ doy > FebEnd THEN doy - 1
                ELSE IF IsLeap(y - 1) /\ doy >= FebEnd THEN doy + 1
                ELSE doy
    IN (YearStart(y - 1) + doy1) * Day + (local % Day)

\* a slip: the start of the fetch is not moved back
WidenedStart_NotWidened(start, zone) == startOfDay(start, zone)

\* start = new Date(startDate); start.setFullYear(start.getFullYear() - 1); start.setHours(0, 0, 0, 0)
WidenedStart(start, zone) == startOfDay(setFullYearMinus1(start + zone) - zone, zone)

\* a slip: the end of the fetch is moved back by a year as well
FetchEnd_YearBack(end, zone) == endOfDay(setFullYearMinus1(end + zone) - zone, zone)

\* end = new Date(endDate); end.setHours(23, 59, 59, 999)
FetchEnd(end, zone) == endOfDay(end, zone)

\* dateFnsFormat(date, "yyyy-MM-dd'T'HH:mm:ss.SSSxxx"): the local time and the offset
dateFnsFormat(t, zone) == DateStr(t + zone, zone)

\* the query string of axios.get('/api/orders', {params: {startDate, endDate}})
FetchQuery(start, end, zone) ==
    [startDate |-> dateFnsFormat(WidenedStart(start, zone), zone),
     endDate |-> dateFnsFormat(FetchEnd(end, zone), zone)]

---------------------------------------------------------------------------
(* The upstream order listing (shopify.order.list) *)

MaxRequests == 2

MaxTicks == 2

\* the page size of the model's shop; the code asks for limit: 250
PageLimit == 2

\* the pages a collection is followed for when the shop's page chain never ends
MaxPages == 3

\* the orders of a shop of the second specification, at most
MaxShop == 3

CACHE_TTL == 5 * 60

\* the orders of the shop, in the order the listing returns them
ShopOrders ==
    << RawOrder(5, At(T0 - 390 * Day, 0), Str("refunded"),
                Delivered(At(T0 - 389 * Day, 0), At(T0 - 5 * Day, 0)), RefundedAt(At(T0 - 1 * Day, 0))),
       RawOrder(1, At(T0 - 3 * Day, 0), Str("refunded"),
                Delivered(At(T0 - 3 * Day, 0), At(T0 - 2 * Day, 0)), RefundedAt(At(T0 - 1 * Day, 0))),
       RawOrder(3, At(T0 - 3 * Day, 0), Str("partially_refunded"),
                Delivered(At(T0 - 3 * Day, 0), At(T0 - 2 * Day, 0)), RefundedAt(At(T0 - 1 * Day, 0))),
       RawOrder(8, At(T0 - Hour, 0), Str("paid"), NULL, Arr(<<>>)) >>

\* the orders a query selects: created_at_min <= created_at <= created_at_max
Matching(query) ==
    SelectSeq(upstream.orders, LAMBDA o :
        /\ ParseDate(query.created_at_min).v <= ParseDate(o.created_at).v
        /\ ParseDate(o.created_at).v <= ParseDate(query.created_at_max).v)

\* the listing's answer to params: one page of orders and orders.nextPageParameters;
\* a continuation carries the query it continues and the place to go on from; a shop
\* whose page chain never ends answers every request with a continuation
OrderList(params) ==
    LET continued == "page_info" \in DOMAIN params
        query == IF continued THEN params.page_info.query ELSE params
        from == IF continued THEN params.page_info.offset ELSE 0
        all == Matching(query)
        to == IF from + PageLimit < Len(all) THEN from + PageLimit ELSE Len(all)
    IN [orders |-> SubSeq(all, from + 1, to),
        nextPageParameters |->
            IF to < Len(all)
            THEN [limit |-> query.limit, page_info |-> [query |-> query, offset |-> to]]
            ELSE IF upstream.endless
            THEN [limit |-> query.limit, page_info |-> [query |-> query, offset |-> from + PageLimit]]
            ELSE NULL]

\* a shop with these orders whose listing ends after the last of them
Shop(os) == [orders |-> os, endless |-> FALSE]

\* orders placed in the initial window, well-formed and not
ShopSamples ==
    { \* delivered and refunded
      RawOrder(1, At(T0 - 3 * Day, 0), Str("refunded"),
               Delivered(At(T0 - 3 * Day, 0), At(T0 - 2 * Day, 0)), RefundedAt(At(T0 - 1 * Day, 0))),
      \* no shipping address, no fulfillments, no refunds
      [RawOrder(2, At(T0 - 2 * Day, 0), Str("paid"), NULL, NULL) EXCEPT !.shipping_address = NULL],
      \* the first fulfillment is null, a refund without transactions, an amount that is no number
      RawOrder(3, At(T0 - 2 * Day, 0), Str("partially_refunded"), Arr(<<NULL>>),
               Arr(<<Refund(At(T0 - 1 * Day, 0), NULL),
                     Refund(At(T0 - 1 * Day, 0), Arr(<<Transaction(BadAmount), Transaction(AmountStr(700))>>))>>)),
      \* a null entry among the refunds
      RawOrder(4, At(T0 - 2 * Day, 0), Str("refunded"),
               Delivered(At(T0 - 2 * Day, 0), At(T0 - 1 * Day, 0)),
               Arr(<<Refund(At(T0 - 1 * Day, 0), Arr(<<Transaction(AmountStr(500))>>)), NULL>>)),
      \* a null entry among a refund's transactions
      RawOrder(6, At(T0 - 2 * Day, 0), Str("refunded"), NULL,
               Arr(<<Refund(At(T0 - 1 * Day, 0), Arr(<<NULL, Transaction(AmountStr(500))>>))>>)) }

\* the shops of the second specification
Upstreams ==
    {Shop(os) : os \in SeqUpTo(ShopSamples, MaxShop)}
      \cup {[Shop(os) EXCEPT !.endless = TRUE] : os \in SeqUpTo({ShopOrders[2]}, 1)}

\* the messages of the errors the listing throws
UpstreamErrors == {"Too Many Requests"}

---------------------------------------------------------------------------
(* The server: GET /api/orders, fetchAllOrders and the cache *)

\* new Date(s).toISOString(): the instant, written in UTC
toISOString(s) == DateStr(ParseDate(s).v, 0)

\* a slip: the handler moves the start back by a year (365 days) itself
HandlerParams_Widening(query) ==
    [status |-> "any",
     created_at_min |-> DateStr(ParseDate(query.startDate).v - 365 * Day, 0),
     created_at_max |-> toISOString(query.endDate),
     limit |-> PageLimit,
     fields |-> "id,order_number,created_at,fulfillments,refunds,financial_status,..."]

\* let params = {status, created_at_min, created_at_max, limit, fields}
HandlerParams(query) ==
    [status |-> "any",
     created_at_min |-> toISOString(query.startDate),
     created_at_max |-> toISOString(query.endDate),
     limit |-> PageLimit,
     fields |-> "id,order_number,created_at,fulfillments,refunds,financial_status,..."]

\* JSON.stringify(params): one string per params object, the keys in their fixed order
JSONStringify(params) == [json |-> params]

\* a slip: the key is computed when the result is stored, from the params of the last page
StoreKey_CurrentParams(r) == JSONStringify(r.params)

\* the key of cache.set: cacheKey, computed before the loop
StoreKey(r) == r.cacheKey

\* a slip: an entry of age TTL still counts as fresh
Fresh_Inclusive(entry, t) == t - entry.timestamp <= CACHE_TTL

\* Date.now() - cachedResult.timestamp < CACHE_TTL
Fresh(entry, t) == t - entry.timestamp < CACHE_TTL

\* cachedResult && Date.now() - cachedResult.timestamp < CACHE_TTL
CacheHit(key, t) == key \in DOMAIN cache /\ Fresh(cache[key], t)

\* a slip: an entry that is there is not overwritten
CacheSet_KeepsFirst(key, entry) ==
    [k \in DOMAIN cache \cup {key} |-> IF k \in DOMAIN cache THEN cache[k] ELSE entry]

\* cache.set(key, entry)
CacheSet(key, entry) == [k \in DOMAIN cache \cup {key} |-> IF k = key THEN entry ELSE cache[k]]

\* res.json(orders.map(order => ...))
OkResponse(os) == [status |-> 200, body |-> Arr([i \in 1..Len(os) |-> enrich(os[i])])]

\* a slip: the error ends the loop and the pages fetched so far are answered
ErrorResponse_Partial(r, message) == OkResponse(r.allOrders)

\* catch (error) { res.status(500).json({ error: error.message }) }
ErrorResponse(r, message) == [status |-> 500, body |-> [kind |-> "object", error |-> message]]

\* a call: pc is where it stands, query what the client sent, params .. currentPage the
\* variables of fetchAllOrders, listLog the params of its shopify.order.list calls so far,
\* orders what fetchAllOrders returned, error what it threw, status and body the answer
NoRequest ==
    [pc |-> "unused", query |-> NULL, params |-> NULL, cacheKey |-> NULL,
     allOrders |-> <<>>, currentPage |-> 0, listLog |-> <<>>,
     orders |-> NULL, error |-> NULL, status |-> 0, body |-> NULL]

Issued == {i \in DOMAIN reqs : reqs[i].pc # "unused"}

\* no effect of the last render is waiting: React runs the effects of a render, in
\* the order of their declaration, before anything else happens in the page, and the
\* server's steps neither read nor write what the effects do
Quiet == ~fetchPending /\ ~calcPending

\* useEffect(() => fetchOrders(), [startDate, endDate]), up to the axios.get
FetchOrders(i) ==
    /\ fetchPending
    /\ reqs[i].pc = "unused"
    /\ \A j \in 1..(i - 1) : reqs[j].pc # "unused"
    /\ reqs' = [reqs EXCEPT ![i] = [NoRequest EXCEPT !.pc = "sent",
                                                   !.query = FetchQuery(startDate, endDate, tz)]]
    /\ fetchPending' = FALSE
    /\ UNCHANGED <<tz, startDate, endDate, orders, analytics, calcPending>>
    /\ UNCHANGED <<now, ticks, cache, nextSweep>>
    /\ UNCHANGED <<rawOrder, enriched, response, upstream>>

\* a slip: an order the callback throws on is left out of the answer
MapAnswer_SkipsThrowing(r, os) == OkResponse(SelectSeq(os, LAMBDA o : ~EnrichThrows(o)))

\* the handler's try block after fetchAllOrders has returned os: res.json of the mapped
\* orders, or the catch's answer when the callback throws on one of them
MapAnswer(r, os) ==
    IF \E k \in 1..Len(os) : EnrichThrows(os[k])
    THEN LET k == CHOOSE k \in 1..Len(os) : EnrichThrows(os[k]) /\ \A j \in 1..(k - 1) : ~EnrichThrows(os[j])
         IN ErrorResponse(r, TypeErrorMessage(os[k]))
    ELSE OkResponse(os)

\* the handler returns from await fetchAllOrders(params) and answers
Answered(r, os) ==
    [r EXCEPT !.pc = "replied", !.orders = Arr(os),
              !.status = MapAnswer(r, os).status, !.body = MapAnswer(r, os).body]

\* app.get('/api/orders') up to the first await that waits: the cache lookup of
\* fetchAllOrders, then either the cached answer or the first shopify.order.list
HandleRequest(i) ==
    /\ Quiet
    /\ reqs[i].pc = "sent"
    /\ LET params == HandlerParams(reqs[i].query)
           cacheKey == JSONStringify(params)
           r == [reqs[i] EXCEPT !.params = params, !.cacheKey = cacheKey]
       IN IF CacheHit(cacheKey, now)
          THEN reqs' = [reqs EXCEPT ![i] = Answered(r, cache[cacheKey].data)]
          ELSE reqs' = [reqs EXCEPT ![i] = [r EXCEPT !.pc = "list", !.currentPage = 1,
                                                     !.listLog = <<params>>]]
    /\ UNCHANGED <<now, ticks, cache, nextSweep>>
    /\ UNCHANGED <<varsClient, fetchPending>>
    /\ UNCHANGED <<rawOrder, enriched, response, upstream>>

\* a slip: a collection stops after two pages
ListReturns_PageLimit(i) ==
    /\ Quiet
    /\ reqs[i].pc = "list"
    /\ upstream.endless => reqs[i].currentPage < MaxPages
    /\ LET page == OrderList(reqs[i].params)
           allOrders == reqs[i].allOrders \o page.orders
           r == [reqs[i] EXCEPT !.allOrders = allOrders]
       IN IF page.nextPageParameters # NULL /\ reqs[i].currentPage < 2
          THEN /\ reqs' = [reqs EXCEPT ![i] = [r EXCEPT !.params = page.nextPageParameters,
                                                        !.currentPage = @ + 1,
                                                        !.pc = "sleep"]]
               /\ cache' = cache
          ELSE /\ cache' = CacheSet(StoreKey(r), [data |-> allOrders, timestamp |-> now])
               /\ reqs' = [reqs EXCEPT ![i] = Answered(r, allOrders)]
    /\ UNCHANGED <<now, ticks, nextSweep>>
    /\ UNCHANGED <<varsClient, fetchPending>>
    /\ UNCHANGED <<rawOrder, enriched, response, upstream>>

\* a slip: the next page is requested at once, without the delay
ListReturns_NoDelay(i) ==
    /\ Quiet
    /\ reqs[i].pc = "list"
    /\ upstream.endless => reqs[i].currentPage < MaxPages
    /\ LET page == OrderList(reqs[i].params)
           allOrders == reqs[i].allOrders \o page.orders
           r == [reqs[i] EXCEPT !.allOrders = allOrders]
       IN IF page.nextPageParameters # NULL
          THEN /\ reqs' = [reqs EXCEPT ![i] = [r EXCEPT !.params = page.nextPageParameters,
                                                        !.currentPage = @ + 1,
                                                        !.listLog = Append(@, page.nextPageParameters)]]
               /\ cache' = cache
          ELSE /\ cache' = CacheSet(StoreKey(r), [data |-> allOrders, timestamp |-> now])
               /\ reqs' = [reqs EXCEPT ![i] = Answered(r, allOrders)]
    /\ UNCHANGED <<now, ticks, nextSweep>>
    /\ UNCHANGED <<varsClient, fetchPending>>
    /\ UNCHANGED <<rawOrder, enriched, response, upstream>>

\* a slip: each page replaces the orders collected so far
ListReturns_KeepsLastPage(i) ==
    /\ Quiet
    /\ reqs[i].pc = "list"
    /\ upstream.endless => reqs[i].currentPage < MaxPages
    /\ LET page == OrderList(reqs[i].params)
           allOrders == page.orders
           r == [reqs[i] EXCEPT !.allOrders = allOrders]
       IN IF page.nextPageParameters # NULL
          THEN /\ reqs' = [reqs EXCEPT ![i] = [r EXCEPT !.params = page.nextPageParameters,
                                                        !.currentPage = @ + 1,
                                                        !.pc = "sleep"]]
               /\ cache' = cache
          ELSE /\ cache' = CacheSet(StoreKey(r), [data |-> allOrders, timestamp |-> now])
               /\ reqs' = [reqs EXCEPT ![i] = Answered(r, allOrders)]
    /\ UNCHANGED <<now, ticks, nextSweep>>
    /\ UNCHANGED <<varsClient, fetchPending>>
    /\ UNCHANGED <<rawOrder, enriched, response, upstream>>

\* shopify.order.list(params) resolves: the rest of the loop body, and after the last
\* page cache.set, the return and the handler's answer
ListReturns(i) ==
    /\ Quiet
    /\ reqs[i].pc = "list"
    /\ upstream.endless => reqs[i].currentPage < MaxPages
    /\ LET page == OrderList(reqs[i].params)
           allOrders == reqs[i].allOrders \o page.orders
           r == [reqs[i] EXCEPT !.allOrders = allOrders]
       IN IF page.nextPageParameters # NULL
          THEN /\ reqs' = [reqs EXCEPT ![i] = [r EXCEPT !.params = page.nextPageParameters,
                                                        !.currentPage = @ + 1,
                                                        !.pc = "sleep"]]
               /\ cache' = cache
          ELSE /\ cache' = CacheSet(StoreKey(r), [data |-> allOrders, timestamp |-> now])
               /\ reqs' = [reqs EXCEPT ![i] = Answered(r, allOrders)]
    /\ UNCHANGED <<now, ticks, nextSweep>>
    /\ UNCHANGED <<varsClient, fetchPending>>
    /\ UNCHANGED <<rawOrder, enriched, response, upstream>>

\* await sleep(100) is over: the loop goes round and requests the next page
SleepDone(i) ==
    /\ Quiet
    /\ reqs[i].pc = "sleep"
    /\ reqs' = [reqs EXCEPT ![i] = [@ EXCEPT !.pc = "list", !.listLog = Append(@, reqs[i].params)]]
    /\ UNCHANGED <<now, ticks, cache, nextSweep>>
    /\ UNCHANGED <<varsClient, fetchPending>>
    /\ UNCHANGED <<rawOrder, enriched, response, upstream>>

\* a slip: the orders collected before the error are stored, as in a finally block
ListFails_StoresPartial(i) ==
    /\ Quiet
    /\ reqs[i].pc = "list"
    /\ \E message \in UpstreamErrors :
         reqs' = [reqs EXCEPT ![i] = [@ EXCEPT !.pc = "replied", !.error = Str(message),
                                             !.status = ErrorResponse(reqs[i], message).status,
                                             !.body = ErrorResponse(reqs[i], message).body]]
    /\ cache' = CacheSet(StoreKey(reqs[i]), [data |-> reqs[i].allOrders, timestamp |-> now])
    /\ UNCHANGED <<now, ticks, nextSweep>>
    /\ UNCHANGED <<varsClient, fetchPending>>
    /\ UNCHANGED <<rawOrder, enriched, response, upstream>>

\* shopify.order.list(params) rejects: the error leaves fetchAllOrders and is caught by the handler
ListFails(i) ==
    /\ Quiet
    /\ reqs[i].pc = "list"
    /\ \E message \in UpstreamErrors :
         reqs' = [reqs EXCEPT ![i] = [@ EXCEPT !.pc = "replied", !.error = Str(message),
                                             !.status = ErrorResponse(reqs[i], message).status,
                                             !.body = ErrorResponse(reqs[i], message).body]]
    /\ UNCHANGED <<now, ticks, cache, nextSweep>>
    /\ UNCHANGED <<varsClient, fetchPending>>
    /\ UNCHANGED <<rawOrder, enriched, response, upstream>>

\* a slip: the catch clears the order list
Receive_ClearsOnFailure(i) ==
    /\ reqs[i].pc = "replied"
    /\ Quiet
    /\ reqs' = [reqs EXCEPT ![i] = NoRequest]
    /\ IF reqs[i].status = 200
       THEN SetOrders(reqs[i].body)
       ELSE SetOrders(Arr(<<>>))
    /\ UNCHANGED <<tz, startDate, endDate, analytics, fetchPending>>
    /\ UNCHANGED <<now, ticks, cache, nextSweep>>
    /\ UNCHANGED <<rawOrder, enriched, response, upstream>>

\* a slip: a response is dropped unless it answers the range selected now
Receive_DiscardsStale(i) ==
    /\ reqs[i].pc = "replied"
    /\ Quiet
    /\ reqs' = [reqs EXCEPT ![i] = NoRequest]
    /\ IF reqs[i].status = 200 /\ reqs[i].query = FetchQuery(startDate, endDate, tz)
       THEN SetOrders(reqs[i].body)
       ELSE UNCHANGED <<orders, calcPending>>
    /\ UNCHANGED <<tz, startDate, endDate, analytics, fetchPending>>
    /\ UNCHANGED <<now, ticks, cache, nextSweep>>
    /\ UNCHANGED <<rawOrder, enriched, response, upstream>>

\* the response reaches fetchOrders: setOrders(response.data), or the catch that logs;
\* the call is over and its place is free for a later one
Receive(i) ==
    /\ reqs[i].pc = "replied"
    /\ Quiet
    /\ reqs' = [reqs EXCEPT ![i] = NoRequest]
    /\ IF reqs[i].status = 200
       THEN SetOrders(reqs[i].body)
       ELSE UNCHANGED <<orders, calcPending>>
    /\ UNCHANGED <<tz, startDate, endDate, analytics, fetchPending>>
    /\ UNCHANGED <<now, ticks, cache, nextSweep>>
    /\ UNCHANGED <<rawOrder, enriched, response, upstream>>

\* a slip: an entry of age CACHE_TTL is deleted as well
Sweep_Inclusive ==
    /\ Quiet
    /\ now = nextSweep
    /\ cache' = [k \in {k \in DOMAIN cache : ~(now - cache[k].timestamp >= CACHE_TTL)} |-> cache[k]]
    /\ nextSweep' = nextSweep + CACHE_TTL
    /\ UNCHANGED <<now, ticks, reqs>>
    /\ UNCHANGED <<varsClient, fetchPending>>
    /\ UNCHANGED <<rawOrder, enriched, response, upstream>>

\* the setInterval callback, run when it is due: every entry older than CACHE_TTL is deleted
Sweep ==
    /\ Quiet
    /\ now = nextSweep
    /\ cache' = [k \in {k \in DOMAIN cache : ~(now - cache[k].timestamp > CACHE_TTL)} |-> cache[k]]
    /\ nextSweep' = nextSweep + CACHE_TTL
    /\ UNCHANGED <<now, ticks, reqs>>
    /\ UNCHANGED <<varsClient, fetchPending>>
    /\ UNCHANGED <<rawOrder, enriched, response, upstream>>

\* time passes, up to the instant the setInterval callback is due
Tick ==
    /\ Quiet
    /\ ticks < MaxTicks
    /\ \E d \in {1, CACHE_TTL - 1, CACHE_TTL} :
         /\ now + d <= nextSweep
         /\ now' = now + d
    /\ ticks' = ticks + 1
    /\ UNCHANGED <<cache, nextSweep, reqs>>
    /\ UNCHANGED <<varsClient, fetchPending>>
    /\ UNCHANGED <<rawOrder, enriched, response, upstream>>

\* the range buttons pressed in the model
PressedRanges == {"Last 7 days"}

SelectRange ==
    /\ Quiet
    /\ Cardinality(Issued) < MaxRequests
    /\ \E label \in PressedRanges : SelectRangeAt(T0 + now, label)
    /\ fetchPending' = TRUE
    /\ UNCHANGED <<tz, orders, analytics>>
    /\ UNCHANGED varsServer
    /\ UNCHANGED <<rawOrder, enriched, response, upstream>>

Calculate ==
    /\ ~fetchPending
    /\ CalculateAnalytics
    /\ UNCHANGED <<fetchPending, now, ticks, cache, nextSweep, reqs>>
    /\ UNCHANGED <<rawOrder, enriched, response, upstream>>

---------------------------------------------------------------------------
(* Aggregation: the claims *)

\* the calendar day of an instant in the browser's time zone
LocalDay(t) == (t + tz) \div Day

\* the instant lies in the days startDate .. endDate of the browser's calendar
InWindow(t) == LocalDay(startDate) <= LocalDay(t) /\ LocalDay(t) <= LocalDay(endDate)

Shown == orders.items

OrderedInWindow == {i \in 1..Len(Shown) : InWindow(Instant(Shown[i].orderDate))}

\* C8: totalOrders is the number of orders whose order date lies in
\* [start of day of startDate, end of day of endDate], whatever their refund dates;
\* an order placed before the window is not counted.
C8_TotalOrders ==
    ~calcPending => analytics.totalOrders = Cardinality(OrderedInWindow)

\* an order placed before the window and refunded inside it, next to one placed inside
C8_Witness ==
    /\ ~calcPending
    /\ \E i \in 1..Len(Shown) :
          /\ LocalDay(Instant(Shown[i].orderDate)) < LocalDay(startDate)
          /\ Shown[i].refundDate # NULL
          /\ InWindow(Instant(Shown[i].refundDate))
    /\ analytics.totalOrders = 1
    /\ analytics.totalOrders < Len(Shown)

\* the candidate refunds: classified Refunded, with a refund date, refunded inside the window
Candidates ==
    {i \in 1..Len(Shown) :
        /\ Shown[i].refundStatus = "Refunded"
        /\ Shown[i].refundDate # NULL
        /\ InWindow(Instant(Shown[i].refundDate))}

\* C9: totalRefunds is the number of orders classified Refunded whose refundDate is
\* present and lies in the window; an order with financial_status
\* 'partially_refunded' is never among them.
C9_TotalRefunds ==
    ~calcPending =>
        /\ analytics.totalRefunds = Cardinality(Candidates)
        /\ analytics.totalRefunds
             <= Cardinality({i \in 1..Len(Shown) : Shown[i].financial_status # Str("partially_refunded")})

\* a partial refund inside the window is left out, a full refund of an order placed
\* before the window is counted
C9_Witness ==
    /\ ~calcPending
    /\ \E i \in 1..Len(Shown) :
          /\ Shown[i].financial_status = Str("partially_refunded")
          /\ Shown[i].refundDate # NULL
          /\ InWindow(Instant(Shown[i].refundDate))
    /\ \E i \in Candidates : ~InWindow(Instant(Shown[i].orderDate))
    /\ analytics.totalRefunds = 1

Measured == {i \in Candidates : Shown[i].daysToRefund.kind = "number"}

\* the days of the measured candidates among the first k orders, summed
RECURSIVE C10_Days(_)
C10_Days(k) ==
    IF k = 0 THEN 0
    ELSE C10_Days(k - 1) + (IF k \in Measured THEN Shown[k].daysToRefund.v ELSE 0)

\* C10: avgDaysToRefund is the mean of daysToRefund over the candidate refunds whose
\* daysToRefund is a number, rounded to one decimal (here: within half a tenth of the
\* mean, counted in tenths), and 0 when no candidate has a number.
C10_AvgDaysToRefund ==
    ~calcPending =>
        LET n == Cardinality(Measured)
            total == C10_Days(Len(Shown))
            avg == analytics.avgDaysToRefund
        IN IF n = 0 THEN avg = 0
           ELSE /\ 2 * (10 * total - n * avg) <= n
                /\ 2 * (n * avg - 10 * total) <= n

\* two measured refunds next to one refunded before delivery
C10_Witness ==
    /\ ~calcPending
    /\ Cardinality(Measured) = 2
    /\ \E i \in Candidates : Shown[i].daysToRefund = Str("before_delivery")
    /\ analytics.avgDaysToRefund = 15

\* three measured refunds whose mean is no whole number of tenths
C10_Rounded ==
    /\ ~calcPending
    /\ Cardinality(Measured) = 3
    /\ (10 * C10_Days(Len(Shown))) % 3 # 0

SixFields ==
    {"totalOrders", "totalRefunds", "avgDaysToRefund", "totalRefundAmount", "refundRate", "avgRefundAmount"}

\* C11 as the spec states it: every snapshot has the six fields, refundRate being
\* totalRefunds / totalOrders * 100 (0 without orders) and avgRefundAmount being
\* totalRefundAmount / totalRefunds (0 without refunds), all six 0 for an empty order list.
C11_SixFields ==
    /\ DOMAIN analytics = SixFields
    /\ analytics.refundRate * analytics.totalOrders = 100 * analytics.totalRefunds
    /\ analytics.avgRefundAmount * analytics.totalRefunds = analytics.totalRefundAmount
    /\ ~calcPending /\ Shown = <<>> => \A f \in SixFields : analytics[f] = 0

\* C11, amended: every snapshot, the initial one and each one calculateAnalytics sets,
\* has exactly the three fields totalOrders, totalRefunds and avgDaysToRefund, and neither
\* a refund rate nor a refund amount; totalRefunds counts candidates that need not be
\* among the totalOrders orders; for an empty order list the snapshot is
\* {totalOrders: 0, totalRefunds: 0, avgDaysToRefund: 0}.
C11_ThreeFields ==
    /\ DOMAIN analytics = {"totalOrders", "totalRefunds", "avgDaysToRefund"}
    /\ ~calcPending =>
          /\ analytics.totalOrders = Cardinality(OrderedInWindow)
          /\ analytics.totalRefunds = Cardinality(Candidates)
          /\ Cardinality(Measured) = 0 => analytics.avgDaysToRefund = 0
    /\ ~calcPending /\ Shown = <<>> =>
          analytics = [totalOrders |-> 0, totalRefunds |-> 0, avgDaysToRefund |-> 0]

\* a snapshot computed from orders and refunds in the window, with no rate in it
C11_Witness ==
    /\ ~calcPending
    /\ analytics.totalOrders > 0
    /\ analytics.totalRefunds > analytics.totalOrders
    /\ ~("refundRate" \in DOMAIN analytics)

\* the snapshot computed from an empty order list
C11_Empty ==
    /\ ~calcPending
    /\ Shown = <<>>
    /\ response # Arr(<<>>)
    /\ analytics = InitialAnalytics

---------------------------------------------------------------------------
(* The server: the claims *)

\* the key of the parameters a call starts with
InitialKey(r) == JSONStringify(HandlerParams(r.query))

\* fetchAllOrders starts in this step, for call i
Starts(i) == reqs[i].pc = "sent" /\ reqs'[i].pc # "sent"

\* fetchAllOrders returns its collection in this step, for call i
Finishes(i) == reqs[i].pc = "list" /\ reqs'[i].pc = "replied" /\ reqs'[i].error = NULL

C1_Step(i) ==
    LET key == InitialKey(reqs[i])
    IN /\ Starts(i) =>
            IF key \in DOMAIN cache /\ now - cache[key].timestamp < 5 * 60
            THEN /\ reqs'[i].pc = "replied"
                 /\ reqs'[i].orders = Arr(cache[key].data)
                 /\ reqs'[i].listLog = <<>>
                 /\ cache' = cache
            ELSE /\ reqs'[i].pc = "list"
                 /\ reqs'[i].listLog = <<HandlerParams(reqs[i].query)>>
       /\ Finishes(i) =>
            /\ DOMAIN cache' = DOMAIN cache \cup {key}
            /\ cache'[key] = [data |-> reqs'[i].orders.items, timestamp |-> now]
            /\ \A k \in DOMAIN cache \ {key} : cache'[k] = cache[k]
       /\ reqs[i].pc = "replied" => reqs'[i].listLog \in {reqs[i].listLog, <<>>}

\* C1: a call of fetchAllOrders that starts while the cache holds an entry for its
\* parameters younger than 5 minutes (counted from the timestamp taken when that
\* collection finished) returns the stored list and requests no page; a call that starts
\* without an entry, or with one of age >= 5 minutes, requests the pages afresh from its
\* initial parameters, and a collection that finishes is stored under the key of the
\* initial parameters with the time of that moment.
C1_CacheWithinTTL == [][\A i \in DOMAIN reqs : C1_Step(i)]_vars

\* a call answered from an entry 299 seconds old, without a page request
C1_Witness ==
    \E i \in DOMAIN reqs :
        /\ reqs[i].pc = "replied"
        /\ reqs[i].listLog = <<>>
        /\ reqs[i].cacheKey \in DOMAIN cache
        /\ now - cache[reqs[i].cacheKey].timestamp = CACHE_TTL - 1
        /\ reqs[i].orders = Arr(cache[reqs[i].cacheKey].data)
        /\ Len(reqs[i].orders.items) > PageLimit

\* a call fetching afresh although an entry for its key, exactly 5 minutes old, is stored
C1_StaleMiss ==
    \E i \in DOMAIN reqs :
        /\ reqs[i].pc = "list"
        /\ reqs[i].cacheKey \in DOMAIN cache
        /\ now - cache[reqs[i].cacheKey].timestamp = CACHE_TTL

NoRepeat(log) == \A j, k \in 1..Len(log) : j # k => log[j] # log[k]

\* C2: when a page request of a collection fails, the collection fails as a whole:
\* fetchAllOrders returns no orders, also none of the pages fetched before, no page is
\* requested after the failure and none twice, and the answer is
\* 500 {error: message}, not a 200 array.
C2_WholeCollectionFails ==
    \A i \in DOMAIN reqs :
        reqs[i].error # NULL =>
            /\ reqs[i].pc = "replied"
            /\ reqs[i].orders = NULL
            /\ reqs[i].status = 500
            /\ reqs[i].body = [kind |-> "object", error |-> reqs[i].error.v]
            /\ NoRepeat(reqs[i].listLog)

\* the second page failed after the first one had brought orders
C2_Witness ==
    \E i \in DOMAIN reqs :
        /\ reqs[i].error # NULL
        /\ Len(reqs[i].listLog) = 2
        /\ Len(reqs[i].allOrders) > 0
        /\ reqs[i].status = 500

\* the client's fetchOrders issues call i in this step
Fetches(i) == reqs[i].pc = "unused" /\ reqs'[i].pc = "sent"

\* the days from the instant t back to the start of the window, in the browser's calendar
DaysBeforeWindow(t) == LocalDay(startDate) - LocalDay(t)

\* C3 as the spec states it: the handler moves the start it receives back by one year,
\* so that created_at_min is the received startDate minus one year.
C3_HandlerWidens ==
    \A i \in DOMAIN reqs :
        reqs[i].listLog # <<>> =>
            Instant(reqs[i].query.startDate) - Instant(reqs[i].listLog[1].created_at_min)
                \in {365 * Day, 366 * Day}

C3_FetchStep(i) ==
    Fetches(i) =>
        LET q == reqs'[i].query
        IN /\ DaysBeforeWindow(Instant(q.startDate)) \in {365, 366}
           /\ (Instant(q.startDate) + tz) % Day = 0
           /\ LocalDay(Instant(q.endDate)) = LocalDay(endDate)
           /\ (Instant(q.endDate) + tz) % Day = Day - 1
           /\ startDate' = startDate /\ endDate' = endDate

C3_Passed ==
    \A i \in DOMAIN reqs :
        reqs[i].listLog # <<>> =>
            /\ Instant(reqs[i].listLog[1].created_at_min) = Instant(reqs[i].query.startDate)
            /\ Instant(reqs[i].listLog[1].created_at_max) = Instant(reqs[i].query.endDate)

\* C3, amended: it is the client's fetchOrders that moves the start back by one year (to
\* the start of that day) before it calls GET /api/orders, leaving startDate and endDate
\* as they are; the handler sends the dates it receives upstream unchanged, as
\* created_at_min and created_at_max; the statistics are those of the window
\* startDate .. endDate.
C3_ClientWidens ==
    /\ [][\A i \in DOMAIN reqs : C3_FetchStep(i)]_vars
    /\ [](C3_Passed /\ (Quiet => analytics.totalOrders = Cardinality(OrderedInWindow)))

\* a page requested upstream from a start 366 days before the window shown, whose
\* statistics leave out an order that was fetched
C3_Witness ==
    /\ Quiet
    /\ \E i \in DOMAIN reqs :
         /\ reqs[i].listLog # <<>>
         /\ DaysBeforeWindow(Instant(reqs[i].listLog[1].created_at_min)) = 366
    /\ Len(orders.items) > analytics.totalOrders
    /\ analytics.totalOrders > 0

\* the orders a listing from the start of the day of startDate to the end of the day of
\* endDate selects: the fetch for the window itself
NarrowFetch ==
    Matching([created_at_min |-> At(startOfDay(startDate, tz), 0),
              created_at_max |-> At(endOfDay(endDate, tz), 0)])

PlacedInWindow(os) == SelectSeq(os, LAMBDA o : InWindow(Instant(o.created_at)))

\* the statistics of the window startDate .. endDate over the enrichments of raw orders
StatsOf(os) == calculateAnalytics([k \in 1..Len(os) |-> enrich(os[k])], startDate, endDate, tz)

C12_FetchStep(i) ==
    Fetches(i) =>
        LET wide == Matching(HandlerParams(reqs'[i].query))
        IN /\ PlacedInWindow(wide) = NarrowFetch
           /\ StatsOf(PlacedInWindow(wide)) = StatsOf(NarrowFetch)
           /\ StatsOf(wide).totalOrders = StatsOf(NarrowFetch).totalOrders
           /\ \A k \in 1..Len(wide) :
                  \/ InWindow(Instant(wide[k].created_at))
                  \/ LocalDay(Instant(wide[k].created_at)) < LocalDay(startDate)

\* C12: moving the start of the fetch back by a year changes nothing for the orders
\* placed inside the window: the orders with an order date in the window, and the
\* statistics over them, are the same for the widened fetch as for a fetch of the
\* window itself, and so is totalOrders; what the widened fetch adds are orders placed
\* before the window.
C12_WideningKeepsWindow == [][\A i \in DOMAIN reqs : C12_FetchStep(i)]_vars

\* a fetch under way whose range holds an order placed before the window and refunded
\* inside it, next to orders placed inside the window
C12_Witness ==
    \E i \in DOMAIN reqs :
        /\ reqs[i].pc = "sent"
        /\ reqs[i].query = FetchQuery(startDate, endDate, tz)
        /\ LET wide == Matching(HandlerParams(reqs[i].query))
           IN /\ Len(NarrowFetch) > 0
              /\ Len(wide) > Len(NarrowFetch)
              /\ StatsOf(wide).totalRefunds > StatsOf(NarrowFetch).totalRefunds

\* the answer to call i reaches the client's fetchOrders in this step
Receives(i) == reqs[i].pc = "replied" /\ reqs'[i].pc = "unused"

C13_Step ==
    /\ \A i \in DOMAIN reqs :
          Receives(i) =>
              IF reqs[i].status = 200
              THEN orders' = reqs[i].body
              ELSE orders' = orders /\ analytics' = analytics /\ calcPending' = calcPending
    /\ (\A i \in DOMAIN reqs : ~Receives(i)) => orders' = orders

\* C13: a fetch of /api/orders that fails leaves the client's order list as it is: the
\* list changes only when a successful response arrives, and then to that response, so
\* after any sequence of fetches it is the last successful response (or still the
\* initial empty list); a failure never clears it.
C13_FailureKeepsOrders == [][C13_Step]_vars

\* a 500 answer on its way to a client that shows the orders of an earlier response
C13_Witness ==
    \E i \in DOMAIN reqs :
        /\ reqs[i].pc = "replied"
        /\ reqs[i].status = 500
        /\ Len(orders.items) > 0
        /\ Quiet

\* a null entry among the order's refunds, or among the transactions of one of them
HasNullEntry(o) ==
    /\ o.refunds # NULL
    /\ \E k \in 1..Len(o.refunds.items) :
          LET refund == o.refunds.items[k]
          IN \/ refund = NULL
             \/ /\ refund.transactions # NULL
                /\ \E j \in 1..Len(refund.transactions.items) : refund.transactions.items[j] = NULL

\* the calls in which fetchAllOrders has returned a list to the handler, which has answered
Mapped == {i \in DOMAIN reqs : reqs[i].pc = "replied" /\ reqs[i].orders # NULL}

\* the record of a raw order without null entries has the defaults for what the order lacks
Defaulted(o, e) ==
    /\ o.shipping_address = NULL => e.shippingName = Str("N/A")
    /\ (o.fulfillments = NULL \/ o.fulfillments = Arr(<<>>) \/ o.fulfillments.items[1] = NULL)
          => e.fulfillmentDate = NULL /\ e.deliveryDate = NULL /\ e.transitStatus = NULL
    /\ (o.refunds = NULL \/ o.refunds = Arr(<<>>))
          => e.refundDate = NULL /\ e.refundAmount = 0 /\ e.daysToRefund = NULL
    /\ (o.refunds # NULL /\ o.refunds # Arr(<<>>))
          => e.refundAmount = C6_AllCents(o.refunds.items, Len(o.refunds.items))

\* C14 as the spec states it: whatever is missing or null in an order, null entries
\* of its refunds and of their transactions included, the answer is a 200 array with one
\* record per raw order.
C14_NeverAborts ==
    \A i \in Mapped :
        /\ reqs[i].status = 200
        /\ reqs[i].body.kind = "array"
        /\ Len(reqs[i].body.items) = Len(reqs[i].orders.items)

\* C14, amended: for orders that lack optional parts (no shipping address, no
\* fulfillments or a null first fulfillment, no refunds, a refund without transactions,
\* an amount that is missing or no number) the enrichment puts defaults and the answer is
\* a 200 array with one record per raw order; but a null entry among an order's refunds
\* or among a refund's transactions makes the callback throw, and then the whole answer
\* is 500 {error: message} and no order of the batch is returned.
C14_DefaultsUnlessNullEntry ==
    \A i \in Mapped :
        LET os == reqs[i].orders.items
        IN IF \E k \in 1..Len(os) : HasNullEntry(os[k])
           THEN /\ reqs[i].status = 500
                /\ reqs[i].body.kind = "object"
                /\ reqs[i].body.error \in {"Cannot read properties of null (reading 'transactions')",
                                            "Cannot read properties of null (reading 'amount')"}
           ELSE /\ reqs[i].status = 200
                /\ reqs[i].body.kind = "array"
                /\ Len(reqs[i].body.items) = Len(os)
                /\ \A k \in 1..Len(os) : Defaulted(os[k], reqs[i].body.items[k])

\* a batch of three orders, collected over two pages, answered with 500 because one of
\* them has a null entry among its refunds
C14_Witness ==
    \E i \in Mapped :
        LET os == reqs[i].orders.items
        IN /\ Len(os) = 3
           /\ ~HasNullEntry(os[1]) /\ HasNullEntry(os[2]) /\ ~HasNullEntry(os[3])
           /\ Len(os[2].refunds.items) = 2 /\ os[2].refunds.items[2] = NULL
           /\ reqs[i].status = 500

\* a batch answered with 200 in which an order lacks the address, the fulfillments and the refunds
C14_Defaults ==
    \E i \in Mapped :
        LET os == reqs[i].orders.items
        IN /\ Len(os) = 2
           /\ os[1].shipping_address = NULL /\ os[1].fulfillments = NULL
           /\ os[2].fulfillments = Arr(<<NULL>>)
           /\ reqs[i].status = 200
           /\ reqs[i].body.items[2].refundAmount = 700

\* the page requests of a call that have been answered with a page
PagesReceived(r) ==
    IF r.pc = "list" \/ r.error # NULL THEN Len(r.listLog) - 1 ELSE Len(r.listLog)

\* the orders of the pages that answer the first n requests of a log, in request order
RECURSIVE PagesOf(_, _)
PagesOf(log, n) == IF n = 0 THEN <<>> ELSE PagesOf(log, n - 1) \o OrderList(log[n]).orders

\* C15: the page requests of a collection start from the initial parameters, each later
\* one has as its parameters the continuation parameters of the response before it, no
\* parameters are requested twice, and the orders collected are those of the pages
\* received, in request order; a collection that returns has stopped at the first
\* response without continuation parameters and returns exactly the orders its initial
\* parameters select, none twice and none left out.
C15_Concatenation ==
    \A i \in DOMAIN reqs :
        LET r == reqs[i]
            log == r.listLog
        IN log # <<>> =>
            /\ log[1] = HandlerParams(r.query)
            /\ \A k \in 1..(Len(log) - 1) : log[k + 1] = OrderList(log[k]).nextPageParameters
            /\ NoRepeat(log)
            /\ r.allOrders = PagesOf(log, PagesReceived(r))
            /\ \A k \in 1..(PagesReceived(r) - 1) : OrderList(log[k]).nextPageParameters # NULL
            /\ (r.pc = "replied" /\ r.error = NULL) =>
                  /\ OrderList(log[Len(log)]).nextPageParameters = NULL
                  /\ r.orders = Arr(PagesOf(log, Len(log)))
                  /\ r.orders = Arr(Matching(log[1]))

\* a collection that has returned the orders of two pages
C15_Witness ==
    \E i \in DOMAIN reqs :
        /\ reqs[i].pc = "replied"
        /\ reqs[i].error = NULL
        /\ Len(reqs[i].listLog) = 2
        /\ "page_info" \in DOMAIN reqs[i].listLog[2]
        /\ Len(reqs[i].orders.items) > PageLimit
        /\ Len(OrderList(reqs[i].listLog[1]).orders) = PageLimit

\* the query of a fetch for the range selected now, and the answer to it
CurrentQuery == FetchQuery(startDate, endDate, tz)

CurrentAnswer == OkResponse(Matching(HandlerParams(CurrentQuery))).body

\* C16 as the spec states it: the result of a fetch for an earlier range is discarded;
\* when the last fetch under way completes and the response to the range selected now
\* has come (before, or with this step), the order list is that response.
C16_LastSelectedWins ==
    [][\A i \in DOMAIN reqs :
          ( /\ Receives(i)
            /\ \A j \in DOMAIN reqs : reqs'[j].pc = "unused"
            /\ \/ orders = CurrentAnswer
               \/ reqs[i].status = 200 /\ reqs[i].query = CurrentQuery )
          => orders' = CurrentAnswer]_vars

C16_Step ==
    /\ \A i \in DOMAIN reqs :
          /\ (Receives(i) /\ reqs[i].status = 200) =>
                 orders' = reqs[i].body /\ startDate' = startDate /\ endDate' = endDate
          /\ Fetches(i) => \A j \in DOMAIN reqs \ {i} : reqs'[j] = reqs[j]
    /\ (startDate' # startDate \/ endDate' # endDate \/ (fetchPending' /\ ~fetchPending))
          => reqs' = reqs

\* C16, amended: selecting a range, and starting the fetch for it, leaves the fetches
\* under way as they are, and no response is discarded: every successful response is
\* written to the order list when it arrives, whatever range is selected then. Once
\* all fetches have completed the list is the successful response that arrived last,
\* which answers the most recently selected range only if it arrived after the others.
C16_LastArrivalWins == [][C16_Step]_vars

\* all fetches have completed, the response to the range selected now was collected,
\* and the list shows the response to the range selected before
C16_Witness ==
    /\ Quiet
    /\ Issued = {}
    /\ JSONStringify(HandlerParams(CurrentQuery)) \in DOMAIN cache
    /\ orders # CurrentAnswer
    /\ Len(orders.items) > Len(CurrentAnswer.items)

\* call i is collecting pages
Collecting(i) == reqs[i].pc \in {"list", "sleep"}

\* another call with the parameters of call i is collecting pages
Overlapped(i) ==
    \E j \in DOMAIN reqs \ {i} : Collecting(j) /\ reqs[j].cacheKey = InitialKey(reqs[i])

C17_Step(i) ==
    LET key == InitialKey(reqs[i])
    IN /\ (Starts(i) /\ Overlapped(i) /\ ~(key \in DOMAIN cache /\ now - cache[key].timestamp < 5 * 60))
            => /\ reqs'[i].pc = "list"
               /\ reqs'[i].listLog = <<HandlerParams(reqs[i].query)>>
               /\ \A j \in DOMAIN reqs \ {i} : reqs'[j] = reqs[j]
       /\ Finishes(i)
            => /\ cache'[key] = [data |-> reqs'[i].orders.items, timestamp |-> now]
               /\ Cardinality(DOMAIN cache') = Cardinality(DOMAIN cache \cup {key})
               /\ key \in DOMAIN cache => cache'[key].data = cache[key].data
               /\ \A j \in DOMAIN reqs \ {i} : reqs'[j] = reqs[j]

\* C17: a call that starts while another call for the same key is still collecting,
\* and finds no fresh entry, misses and runs a page sequence of its own from the initial
\* parameters, without touching the other call; each call that finishes stores its own
\* result with the time of that moment, over the entry that is there, so the key has one
\* entry; and the lists are the same: two such calls return the same orders, which are the
\* data of the entry (the shop's orders not changing meanwhile).
C17_OverlappingCalls ==
    /\ [][\A i \in DOMAIN reqs : C17_Step(i)]_vars
    /\ [](\A i, j \in DOMAIN reqs :
            ( /\ reqs[i].pc = "replied" /\ reqs[j].pc = "replied"
              /\ reqs[i].error = NULL /\ reqs[j].error = NULL
              /\ reqs[i].cacheKey = reqs[j].cacheKey )
            => /\ reqs[i].orders = reqs[j].orders
               /\ reqs[i].cacheKey \in DOMAIN cache
                     => cache[reqs[i].cacheKey].data = reqs[i].orders.items)

\* two calls for one key have each collected two pages, and the entry of the key has the
\* time of the later store: the clock has moved since the server started, and no entry
\* can have gone stale yet
C17_Witness ==
    \E i, j \in DOMAIN reqs :
        /\ i # j
        /\ reqs[i].cacheKey = reqs[j].cacheKey
        /\ reqs[i].pc = "replied" /\ reqs[j].pc = "replied"
        /\ reqs[i].error = NULL /\ reqs[j].error = NULL
        /\ Len(reqs[i].listLog) = 2 /\ Len(reqs[j].listLog) = 2
        /\ now = 1
        /\ DOMAIN cache = {reqs[i].cacheKey}
        /\ cache[reqs[i].cacheKey].timestamp = 1

\* the setInterval callback runs in this step
Sweeps == nextSweep' # nextSweep

C18_Step ==
    /\ Sweeps =>
          /\ now = nextSweep
          /\ nextSweep' = nextSweep + 5 * 60
          /\ DOMAIN cache' = {k \in DOMAIN cache : now - cache[k].timestamp <= 5 * 60}
          /\ \A k \in DOMAIN cache' : cache'[k] = cache[k]
          /\ reqs' = reqs
    /\ ~Sweeps => DOMAIN cache \subseteq DOMAIN cache'
    /\ \A i \in DOMAIN reqs : (Starts(i) /\ reqs'[i].pc = "replied") => cache' = cache

\* C18: the sweep runs every 5 minutes from the server's start, whatever lookups
\* happen; it removes exactly the entries older than 5 minutes and leaves the others as
\* they are, and nothing else removes an entry; a lookup that hits leaves the cache, and
\* so the entry's timestamp, unchanged.
C18_Sweep ==
    /\ [][C18_Step]_vars
    /\ [](nextSweep % (5 * 60) = 0 /\ now <= nextSweep /\ nextSweep - now <= 5 * 60)

\* after the second sweep: the entry of a collection that returned is gone, an entry
\* exactly 5 minutes old is still there
C18_Witness ==
    /\ nextSweep = 3 * CACHE_TTL
    /\ now = 2 * CACHE_TTL
    /\ \E k \in DOMAIN cache : now - cache[k].timestamp = CACHE_TTL
    /\ \E i \in DOMAIN reqs :
          /\ reqs[i].pc = "replied"
          /\ reqs[i].error = NULL
          /\ reqs[i].listLog # <<>>
          /\ ~(reqs[i].cacheKey \in DOMAIN cache)

\* a call answered from an entry that the next sweep removes
C18_ReadThenSwept ==
    /\ now = nextSweep
    /\ \E i \in DOMAIN reqs :
          /\ reqs[i].pc = "replied"
          /\ reqs[i].listLog = <<>>
          /\ reqs[i].cacheKey \in DOMAIN cache
          /\ now - cache[reqs[i].cacheKey].timestamp > CACHE_TTL

\* call i requests a page in this step
Requests(i) == reqs'[i].listLog # reqs[i].listLog /\ reqs'[i].listLog # <<>>

C19_Step(i) ==
    LET r == reqs[i]
    IN /\ Requests(i) =>
            /\ reqs'[i].listLog = Append(r.listLog, reqs'[i].params)
            /\ reqs'[i].pc = "list"
            /\ r.pc \in {"sent", "sleep"}
            /\ r.pc = "sleep" => r.allOrders = PagesOf(r.listLog, Len(r.listLog))
       /\ (reqs'[i].pc = "sleep" /\ r.pc # "sleep") =>
            /\ r.pc = "list"
            /\ OrderList(r.params).nextPageParameters # NULL
            /\ reqs'[i].listLog = r.listLog
       /\ (r.pc = "list" /\ reqs'[i] # r /\ OrderList(r.params).nextPageParameters = NULL) =>
            reqs'[i].pc = "replied"

\* C19: the page requests of one collection come one after the other: a request is
\* outstanding exactly while the collection waits in shopify.order.list, which is one
\* request at a time (the currentPage-th); the next page is requested only from the delay
\* that follows a response with continuation parameters, when every page requested so
\* far has been received; a response without continuation parameters ends the collection
\* at once, with no delay after it.
C19_Sequential ==
    /\ [][\A i \in DOMAIN reqs : C19_Step(i)]_vars
    /\ [](\A i \in DOMAIN reqs :
            /\ reqs[i].pc = "list" =>
                  Len(reqs[i].listLog) = reqs[i].currentPage /\ PagesReceived(reqs[i]) = reqs[i].currentPage - 1
            /\ reqs[i].pc = "sleep" =>
                  Len(reqs[i].listLog) = reqs[i].currentPage - 1 /\ PagesReceived(reqs[i]) = Len(reqs[i].listLog))

\* the second page is requested, after the first one was received and the delay is over
C19_Witness ==
    \E i \in DOMAIN reqs :
        /\ reqs[i].pc = "list"
        /\ Len(reqs[i].listLog) = 2
        /\ Len(reqs[i].allOrders) = PageLimit
        /\ OrderList(reqs[i].params).nextPageParameters = NULL

\* fetchAllOrders has returned a list in call i
Returned(i) == reqs[i].orders # NULL

C20_Step(i) ==
    LET next == OrderList(reqs[i].params).nextPageParameters
    IN (reqs[i].pc = "list" /\ reqs'[i] # reqs[i]) =>
          /\ next = NULL => Returned(i)' /\ reqs'[i].pc = "replied" /\ reqs'[i].cacheKey \in DOMAIN cache'
          /\ next # NULL => ~Returned(i)' /\ reqs'[i].pc = "sleep" /\ cache' = cache

\* C20: a collection ends exactly at a response without continuation parameters: a
\* response with them always leads to another page request, however many pages there
\* have been. When every page request is answered and the shop's page chain ends, a
\* collection that is under way returns in the end; when the chain never ends, no call
\* returns and nothing is written to the cache.
C20_Termination ==
    /\ [][\A i \in DOMAIN reqs : C20_Step(i)]_vars
    /\ \A i \in 1..MaxRequests : (~upstream.endless /\ Collecting(i)) ~> Returned(i)
    /\ [](upstream.endless => cache = <<>> /\ \A i \in DOMAIN reqs : ~Returned(i))

\* a collection over two pages has returned and is stored
C20_Witness ==
    /\ ~upstream.endless
    /\ cache # <<>>
    /\ \E i \in DOMAIN reqs :
          /\ Returned(i)
          /\ reqs[i].currentPage = 2
          /\ Len(reqs[i].allOrders) = MaxShop

\* a collection from a shop whose page chain never ends, as far as it is followed
C20_Endless ==
    /\ upstream.endless
    /\ cache = <<>>
    /\ \E i \in DOMAIN reqs :
          /\ Collecting(i)
          /\ reqs[i].currentPage = MaxPages
          /\ Len(reqs[i].listLog) = MaxPages

\* a page request of call i throws in this step
Fails(i) == reqs[i].error = NULL /\ reqs'[i].error # NULL

\* the entry of a key, if there is one
EntryOf(c, key) == IF key \in DOMAIN c THEN c[key] ELSE NULL

C21_Step(i) ==
    LET key == InitialKey(reqs[i])
    IN /\ Fails(i) =>
            /\ reqs[i].pc = "list"
            /\ cache' = cache
            /\ EntryOf(cache', key) = EntryOf(cache, key)
            /\ reqs'[i].orders = NULL
       /\ Starts(i) =>
            IF key \in DOMAIN cache /\ now - cache[key].timestamp < 5 * 60
            THEN reqs'[i].listLog = <<>>
            ELSE reqs'[i].listLog = <<HandlerParams(reqs[i].query)>> /\ reqs'[i].allOrders = <<>>

\* C21: a collection that fails leaves the cache as it is: when a page request throws,
\* no entry is made or overwritten, so an entry stored before for the key, stale or not,
\* keeps its data and timestamp; and a call that starts afterwards with the same
\* parameters requests the pages afresh from the initial parameters, with nothing
\* collected yet, unless an entry younger than 5 minutes is there. An entry is only
\* ever the full result of a collection that returned.
C21_FailureKeepsCache ==
    /\ [][\A i \in DOMAIN reqs : C21_Step(i)]_vars
    /\ [](\A key \in DOMAIN cache : cache[key].data = Matching(key.json))

\* the second page of a collection has failed, with orders of the first page in hand,
\* while the key's entry of an earlier collection, 5 minutes old, is still stored
C21_Witness ==
    \E i \in DOMAIN reqs :
        /\ reqs[i].error # NULL
        /\ Len(reqs[i].listLog) = 2
        /\ Len(reqs[i].allOrders) = PageLimit
        /\ reqs[i].cacheKey \in DOMAIN cache
        /\ now - cache[reqs[i].cacheKey].timestamp = CACHE_TTL
        /\ Len(cache[reqs[i].cacheKey].data) > PageLimit

\* a call collecting afresh although an earlier call with its parameters has failed
C21_Retry ==
    \E i, j \in DOMAIN reqs :
        /\ reqs[i].error # NULL
        /\ reqs[j].pc = "list"
        /\ reqs[j].listLog = <<HandlerParams(reqs[j].query)>>
        /\ reqs[j].cacheKey = reqs[i].cacheKey
        /\ ~(reqs[i].cacheKey \in DOMAIN cache)

---------------------------------------------------------------------------
(* Specifications *)

IdleEnrich == rawOrder = NULL /\ enriched = NULL

IdleAgg == response = NULL

IdleServer ==
    /\ fetchPending = FALSE /\ now = 0 /\ ticks = 0
    /\ cache = <<>> /\ nextSweep = CACHE_TTL
    /\ reqs = [i \in 1..MaxRequests |-> NoRequest]
    /\ upstream = Shop(<<>>)

IdleClient ==
    /\ tz = 0 /\ startDate = 0 /\ endDate = 0
    /\ orders = Arr(<<>>) /\ analytics = InitialAnalytics /\ calcPending = FALSE

InitEnrich ==
    /\ rawOrder \in RawOrders
    /\ enriched = NULL
    /\ IdleClient
    /\ IdleAgg
    /\ IdleServer

\* one call of the orders.map callback
Enrich ==
    /\ enriched = NULL
    /\ rawOrder # NULL
    /\ enriched' = enrich(rawOrder)
    /\ UNCHANGED rawOrder
    /\ UNCHANGED varsClient
    /\ UNCHANGED response
    /\ UNCHANGED <<fetchPending, varsServer>>

NextEnrich == Enrich

SpecEnrich == InitEnrich /\ [][NextEnrich]_vars

InitAgg ==
    /\ IdleEnrich
    /\ InitClient(T0, TimeZones)
    /\ response \in AggResponses
    /\ IdleServer

AggSelectRange ==
    /\ ~calcPending
    /\ \E label \in DOMAIN predefinedRanges(T0, tz) : SelectRangeAt(T0, label)
    /\ UNCHANGED <<tz, orders, analytics, response>>
    /\ UNCHANGED varsEnrich
    /\ UNCHANGED <<fetchPending, varsServer>>

AggSetOrders ==
    /\ ~calcPending
    /\ SetOrders(response)
    /\ UNCHANGED <<tz, startDate, endDate, analytics, response>>
    /\ UNCHANGED varsEnrich
    /\ UNCHANGED <<fetchPending, varsServer>>

AggCalculate ==
    /\ CalculateAnalytics
    /\ UNCHANGED <<rawOrder, enriched, response, upstream>>
    /\ UNCHANGED <<fetchPending, varsServer>>

NextAgg == AggSelectRange \/ AggSetOrders \/ AggCalculate

SpecAgg == InitAgg /\ [][NextAgg]_vars

\* the server when it has started and the page at its first render
Init ==
    /\ IdleEnrich
    /\ IdleAgg
    /\ InitClient(T0, {EST})
    /\ fetchPending = TRUE
    /\ now = 0
    /\ ticks = 0
    /\ cache = <<>>
    /\ nextSweep = CACHE_TTL
    /\ reqs = [i \in 1..MaxRequests |-> NoRequest]
    /\ upstream = Shop(ShopOrders)

Fetch == \E i \in DOMAIN reqs : FetchOrders(i)

Handle == \E i \in DOMAIN reqs : HandleRequest(i)

PageReturned == \E i \in DOMAIN reqs : ListReturns(i)

PageFailed == \E i \in DOMAIN reqs : ListFails(i)

Slept == \E i \in DOMAIN reqs : SleepDone(i)

Received == \E i \in DOMAIN reqs : Receive(i)

Next ==
    \/ SelectRange
    \/ Fetch
    \/ Calculate
    \/ Handle
    \/ PageReturned
    \/ PageFailed
    \/ Slept
    \/ Received
    \/ Sweep
    \/ Tick

Spec == Init /\ [][Next]_vars

\* one page load against any of the shops, every page request being answered
InitUpstream ==
    /\ IdleEnrich
    /\ IdleAgg
    /\ InitClient(T0, {EST})
    /\ fetchPending = TRUE
    /\ now = 0
    /\ ticks = 0
    /\ cache = <<>>
    /\ nextSweep = CACHE_TTL
    /\ reqs = [i \in 1..MaxRequests |-> NoRequest]
    /\ upstream \in Upstreams

NextUpstream ==
    \/ Fetch
    \/ Calculate
    \/ Handle
    \/ PageReturned
    \/ Slept
    \/ Received

\* the effects of a render run, the handler runs when its request has come, the
\* listing answers, the timer of sleep fires, and the answer reaches the client
SpecUpstream ==
    /\ InitUpstream
    /\ [][NextUpstream]_vars
    /\ WF_vars(Fetch) /\ WF_vars(Calculate) /\ WF_vars(Handle)
    /\ WF_vars(PageReturned) /\ WF_vars(Slept) /\ WF_vars(Received)

====
